---- MODULE Spec2Model ----
(***************************************************************************)
(* Dispatch / completion accounting / shutdown of the SPDK example         *)
(* programs of this repository.  Each program is modelled as its own state *)
(* machine over its own group of variables:                                *)
(*   mc_*  bdev_multicore_multi_threads.c  (2 reactors x 2 threads)        *)
(*   rt_*  bdev_reactor_multi_threads.c    (1 reactor  x 3 threads)        *)
(*   mq_*  nvme_multicore_multi_qpair.c    (2 cores x 4 qpairs)            *)
(*   bn_*  bdev_nvme.c                     (one thread, one read)          *)
(*   bm_*  bdev_nvme_multi.c               (2 pinned threads x 4 reads)    *)
(*   mf_*  spdk_nvme_multi_io_full.c       (2 pinned threads x 1 qpair)    *)
(*   na_*  spdk_nvme_app.c                 (3 SPDK threads, 1 controller)  *)
(* SPDK itself (reactors, the bdev layer, the NVMe driver) is the          *)
(* environment: its return codes and completions are inputs drawn with \E. *)
(***************************************************************************)
EXTENDS Integers, Naturals, Sequences, FiniteSets, TLC

VARIABLES
    \* ---- bdev_multicore_multi_threads.c ----
    mc_app,                \* "init" | "running" | "stopping" | "exited"
    mc_g_desc,             \* "null" | "open"
    mc_g_total_expected,
    mc_g_total_completed,
    mc_msg,                \* per g_ctx index: thread_work message "none" | "queued" | "done"
    mc_inflight,           \* per g_ctx index: reads accepted by spdk_bdev_read, callback not yet started
    mc_reactor,            \* per core: what the reactor is executing right now
    mc_callbacks,          \* number of io_complete callbacks that have returned
    mc_stop_calls,         \* number of spdk_app_stop(0) calls made by io_complete
    mc_rc,                 \* value handed to spdk_app_stop
    mc_exit,               \* value returned by main, meaningful once mc_app = "exited"
    mc_live_bufs,          \* buffers obtained from spdk_zmalloc and not yet passed to spdk_free
    \* ---- bdev_reactor_multi_threads.c ----
    rt_app,                \* "init" | "running" | "stopping" | "exited"
    rt_g_desc,             \* "null" | "open"
    rt_g_total_expected,
    rt_g_total_completed,
    rt_msg,                \* per thread: thread_work message "none" | "queued" | "done"
    rt_ch,                 \* per thread: t->ch, "null" | "open"
    rt_submitted,          \* per thread: t->submitted
    rt_completed,          \* per thread: t->completed
    rt_inflight,           \* per thread: reads the bdev layer holds (accepted, callback not yet run)
    rt_qdepth,             \* queue depth limit of a channel of the opened bdev
    rt_cur,                \* the thread_work invocation the reactor is inside, and its loop index
    rt_last,               \* outcome of the latest submit_one_io / io_complete
    rt_callbacks,          \* number of io_complete callbacks that have run
    rt_stop_calls,         \* number of spdk_app_stop(0) calls made by io_complete
    rt_rc,                 \* value handed to spdk_app_stop
    rt_exit,               \* value returned by main, meaningful once rt_app = "exited"
    rt_live_tasks,         \* io_task objects calloc'ed and not yet freed
    rt_live_bufs,          \* buffers obtained from spdk_zmalloc and not yet passed to spdk_free
    \* ---- nvme_multicore_multi_qpair.c ----
    mq_app,                \* "init" | "running" | "crashed"
    mq_ctrlr,              \* "null" | "connected"
    mq_qpair,              \* per core, per index: t->qpairs[i].qpair, "unset" | "null" | "alloc"
    mq_event,              \* per core: thread_work event "none" | "queued" | "running" | "done"
    mq_cur,                \* per core: index of the qpair thread_work's outer loop is at
    mq_accepted,           \* per core, per qpair: reads spdk_nvme_ns_cmd_read accepted
    mq_cb_invoked,         \* per core, per qpair: io_complete callbacks invoked
    mq_users,              \* per core, per qpair: cores that have made a driver call on the qpair
    \* ---- bdev_reactor_multi_threads.c, the locals of one thread_work call ----
    tw_pc,                 \* "start" | "loop" | "done"
    tw_nb,                 \* nb = spdk_bdev_get_num_blocks(t->bdev)
    tw_i,                  \* loop index i
    tw_lba,                \* lba handed to the latest submit_one_io
    \* ---- bdev_nvme.c ----
    bn_pc,                 \* position of main: "env_init" | "get_by_name" | "open" | "get_channel" |
                           \*   "submit" | "poll" | "close" | "exited"
    bn_desc,               \* ctx.desc: "null" | "open" | "closed"
    bn_ch,                 \* ctx.ch: "null" | "open" | "released"
    bn_io_submitted,       \* ctx.io_submitted
    bn_io_completed,       \* ctx.io_completed
    bn_inflight,           \* reads the bdev layer holds (accepted, callback not yet run)
    bn_live_bufs,          \* buffers obtained from spdk_malloc and not yet passed to spdk_free
    bn_exit,               \* value returned by main, meaningful once bn_pc = "exited"
    \* ---- bdev_nvme_multi.c ----
    bm_pc,                 \* position of main: "env_init" | "get_by_name" | "open" | "launch" |
                           \*   "monitor" | "exited"
    bm_desc,               \* ctx[0].desc: "null" | "open"
    bm_launched,           \* number of reactor threads main has launched
    bm_exit,               \* value returned by main, meaningful once bm_pc = "exited"
    bm_thread,             \* per core: reactor_thread "none" | "start" | "submit" | "poll" | "returned"
    bm_ch,                 \* per core: ctx[i].ch, "null" | "open"
    bm_i,                  \* per core: loop index of submit_io
    bm_io_submitted,       \* per core: ctx[i].io_submitted
    bm_io_completed,       \* per core: ctx[i].io_completed
    bm_inflight,           \* per core: reads the bdev layer holds on the core's channel
    bm_live_bufs,          \* buffers obtained from spdk_zmalloc and not yet passed to spdk_free
    \* ---- spdk_nvme_multi_io_full.c ----
    mf_pc,                 \* position of main: "env_init" | "connect" | "launch" | "monitor" | "exited"
    mf_ctrlr,              \* ctx[0].ctrlr: "null" | "connected"
    mf_launched,           \* number of reactor threads main has launched
    mf_exit,               \* value returned by main, meaningful once mf_pc = "exited"
    mf_thread,             \* per core: reactor_thread "none" | "start" | "submit" | "poll" | "returned"
    mf_qpair,              \* per core, per index: ctx[i].qpair[q], "unset" | "null" | "alloc"
    mf_io_submitted,       \* per core: ctx[i].io_submitted
    mf_io_completed,       \* per core: ctx[i].io_completed
    mf_inflight,           \* per core: reads the driver accepted whose callback has not run
    mf_live_bufs,          \* buffers obtained from spdk_zmalloc and not yet passed to spdk_free
    \* ---- spdk_nvme_app.c ----
    na_pc,                 \* position of main: "env_init" | "threads" | "probe" | "qpair" | "exited"
    na_todo,               \* cores SPDK_ENV_FOREACH_CORE has not visited yet
    na_threads,            \* cores for which spdk_thread_create returned a thread
    na_g_ctrlr,            \* g_ctrlr: "null" | "attached"
    na_qpairs,             \* number of qpairs spdk_nvme_ctrlr_alloc_io_qpair returned
    na_exit                \* value returned by main, meaningful once na_pc = "exited"

mcVars == << mc_app, mc_g_desc, mc_g_total_expected, mc_g_total_completed,
             mc_msg, mc_inflight, mc_reactor, mc_callbacks, mc_stop_calls,
             mc_rc, mc_exit, mc_live_bufs >>

rtVars == << rt_app, rt_g_desc, rt_g_total_expected, rt_g_total_completed,
             rt_msg, rt_ch, rt_submitted, rt_completed, rt_inflight, rt_qdepth,
             rt_cur, rt_last, rt_callbacks, rt_stop_calls, rt_rc, rt_exit,
             rt_live_tasks, rt_live_bufs >>

mqVars == << mq_app, mq_ctrlr, mq_qpair, mq_event, mq_cur, mq_accepted, mq_cb_invoked,
            mq_users >>

twVars == << tw_pc, tw_nb, tw_i, tw_lba >>

bnVars == << bn_pc, bn_desc, bn_ch, bn_io_submitted, bn_io_completed, bn_inflight,
            bn_live_bufs, bn_exit >>

bmVars == << bm_pc, bm_desc, bm_launched, bm_exit, bm_thread, bm_ch, bm_i,
            bm_io_submitted, bm_io_completed, bm_inflight, bm_live_bufs >>

mfVars == << mf_pc, mf_ctrlr, mf_launched, mf_exit, mf_thread, mf_qpair,
            mf_io_submitted, mf_io_completed, mf_inflight, mf_live_bufs >>

naVars == << na_pc, na_todo, na_threads, na_g_ctrlr, na_qpairs, na_exit >>

vars == << mcVars, rtVars, mqVars, twVars, bnVars, bmVars, mfVars, naVars >>

\* What each program leaves alone: the variables of the other programs.
mcOthers == << rtVars, mqVars, twVars, bnVars, bmVars, mfVars, naVars >>
rtOthers == << mcVars, mqVars, twVars, bnVars, bmVars, mfVars, naVars >>
mqOthers == << mcVars, rtVars, twVars, bnVars, bmVars, mfVars, naVars >>
twOthers == << mcVars, rtVars, mqVars, bnVars, bmVars, mfVars, naVars >>
bnOthers == << mcVars, rtVars, mqVars, twVars, bmVars, mfVars, naVars >>
bmOthers == << mcVars, rtVars, mqVars, twVars, bnVars, mfVars, naVars >>
mfOthers == << mcVars, rtVars, mqVars, twVars, bnVars, bmVars, naVars >>
naOthers == << mcVars, rtVars, mqVars, twVars, bnVars, bmVars, mfVars >>

\* Sum of a function of naturals over a finite domain.
RECURSIVE SumOver(_, _)
SumOver(f, S) ==
    IF S = {} THEN 0
    ELSE LET x == CHOOSE y \in S : TRUE
         IN  f[x] + SumOver(f, S \ {x})

Sum(f) == SumOver(f, DOMAIN f)

\* Return codes of the submit calls: 0 accepts the read, anything else rejects it.
SubmitRcs == {0, -1}

(***************************************************************************)
(*                 bdev_multicore_multi_threads.c                          *)
(***************************************************************************)
MC_THREADS_PER_REACTOR == 2
MC_IO_PER_THREAD == 4
MC_CORES == 2

MC_Threads == 0 .. (MC_THREADS_PER_REACTOR * MC_CORES - 1)
MC_Reactors == 0 .. (MC_CORES - 1)

\* app_start's loops give g_ctx[idx] the name r<core>_t<t>: idx = core * THREADS_PER_REACTOR + t.
MC_ReactorOf(idx) == idx \div MC_THREADS_PER_REACTOR

MC_Idle == [op |-> "idle", reg |-> 0]

MC_Init ==
    /\ mc_app = "init"
    /\ mc_g_desc = "null"
    /\ mc_g_total_expected = 0
    /\ mc_g_total_completed = 0
    /\ mc_msg = [t \in MC_Threads |-> "none"]
    /\ mc_inflight = [t \in MC_Threads |-> 0]
    /\ mc_reactor = [r \in MC_Reactors |-> MC_Idle]
    /\ mc_callbacks = 0
    /\ mc_stop_calls = 0
    /\ mc_rc = 0
    /\ mc_exit = 0
    /\ mc_live_bufs = 0

\* app_start: open the bdev; on failure stop the app with -1, otherwise set
\* the expected total and post thread_work to every thread.
MC_app_start ==
    /\ mc_app = "init"
    /\ \E rc \in {0, -1} :
         IF rc # 0
         THEN /\ mc_rc' = -1
              /\ mc_app' = "stopping"
              /\ UNCHANGED << mc_g_desc, mc_g_total_expected, mc_g_total_completed, mc_msg >>
         ELSE /\ mc_g_desc' = "open"
              /\ mc_g_total_expected' = MC_THREADS_PER_REACTOR * 2 * MC_IO_PER_THREAD
              /\ mc_g_total_completed' = 0
              /\ mc_msg' = [t \in MC_Threads |-> "queued"]
              /\ mc_app' = "running"
              /\ UNCHANGED mc_rc
    /\ UNCHANGED << mc_inflight, mc_reactor, mc_callbacks, mc_stop_calls, mc_exit, mc_live_bufs >>
    /\ UNCHANGED mcOthers

\* submit_io: IO_PER_THREAD iterations, each allocating a buffer and calling
\* spdk_bdev_read, whose return code rcs[i] is ignored.  The result is the
\* number of reads the bdev layer accepted and the number of buffers allocated.
MC_Accepted(rcs) == Cardinality({i \in DOMAIN rcs : rcs[i] = 0})

\* thread_work: runs to completion on the reactor of thread t: take the
\* channel, then submit_io.
MC_thread_work(t) ==
    /\ mc_app \in {"running", "stopping"}
    /\ mc_msg[t] = "queued"
    /\ mc_reactor[MC_ReactorOf(t)].op = "idle"
    /\ \E rcs \in [0 .. (MC_IO_PER_THREAD - 1) -> SubmitRcs] :
         mc_inflight' = [mc_inflight EXCEPT ![t] = @ + MC_Accepted(rcs)]
    /\ mc_live_bufs' = mc_live_bufs + MC_IO_PER_THREAD
    /\ mc_msg' = [mc_msg EXCEPT ![t] = "done"]
    /\ UNCHANGED << mc_app, mc_g_desc, mc_g_total_expected, mc_g_total_completed,
                    mc_reactor, mc_callbacks, mc_stop_calls, mc_rc, mc_exit >>
    /\ UNCHANGED mcOthers

\* io_complete, g_total_completed++ : the plain (non-atomic) increment is a
\* load followed by a store; callbacks of threads on different reactors run
\* in parallel, so the two halves interleave with the other reactor's.
MC_io_complete_load(t) ==
    /\ mc_app \in {"running", "stopping"}
    /\ mc_inflight[t] > 0
    /\ mc_reactor[MC_ReactorOf(t)].op = "idle"
    /\ mc_inflight' = [mc_inflight EXCEPT ![t] = @ - 1]
    /\ mc_reactor' = [mc_reactor EXCEPT ![MC_ReactorOf(t)] =
                         [op |-> "io_complete_store", reg |-> mc_g_total_completed]]
    /\ UNCHANGED << mc_app, mc_g_desc, mc_g_total_expected, mc_g_total_completed,
                    mc_msg, mc_callbacks, mc_stop_calls, mc_rc, mc_exit, mc_live_bufs >>
    /\ UNCHANGED mcOthers

MC_io_complete_store(r) ==
    LET cur == mc_reactor[r] IN
    /\ cur.op = "io_complete_store"
    /\ mc_g_total_completed' = cur.reg + 1
    /\ mc_reactor' = [mc_reactor EXCEPT ![r] = [cur EXCEPT !.op = "io_complete_cmp"]]
    /\ UNCHANGED << mc_app, mc_g_desc, mc_g_total_expected, mc_msg, mc_inflight,
                    mc_callbacks, mc_stop_calls, mc_rc, mc_exit, mc_live_bufs >>
    /\ UNCHANGED mcOthers

\* io_complete, if (g_total_completed == g_total_expected) spdk_app_stop(0);
\* the buffer of the read is not freed anywhere in this file.
MC_io_complete_cmp(r) ==
    LET cur == mc_reactor[r] IN
    /\ cur.op = "io_complete_cmp"
    /\ IF mc_g_total_completed = mc_g_total_expected
       THEN /\ mc_stop_calls' = mc_stop_calls + 1
            /\ mc_app' = "stopping"
       ELSE UNCHANGED << mc_stop_calls, mc_app >>
    /\ mc_callbacks' = mc_callbacks + 1
    /\ mc_reactor' = [mc_reactor EXCEPT ![r] = MC_Idle]
    /\ UNCHANGED << mc_g_desc, mc_g_total_expected, mc_g_total_completed, mc_msg,
                    mc_inflight, mc_rc, mc_exit, mc_live_bufs >>
    /\ UNCHANGED mcOthers

\* main: spdk_app_start returns once the stop request is honoured (every
\* reactor has finished the handler it was running); its result is dropped
\* and main returns 0.
MC_main_return ==
    /\ mc_app = "stopping"
    /\ \A r \in MC_Reactors : mc_reactor[r].op = "idle"
    /\ mc_app' = "exited"
    /\ mc_exit' = 0
    /\ UNCHANGED << mc_g_desc, mc_g_total_expected, mc_g_total_completed, mc_msg,
                    mc_inflight, mc_reactor, mc_callbacks, mc_stop_calls, mc_rc, mc_live_bufs >>
    /\ UNCHANGED mcOthers

MC_Next ==
    \/ MC_app_start
    \/ \E t \in MC_Threads : MC_thread_work(t)
    \/ \E t \in MC_Threads : MC_io_complete_load(t)
    \/ \E r \in MC_Reactors : MC_io_complete_store(r)
    \/ \E r \in MC_Reactors : MC_io_complete_cmp(r)
    \/ MC_main_return

(***************************************************************************)
(*                 bdev_reactor_multi_threads.c                            *)
(***************************************************************************)
RT_THREADS_PER_REACTOR == 3
RT_IO_PER_THREAD == 8

RT_Threads == 0 .. (RT_THREADS_PER_REACTOR - 1)

\* Queue depth limits the opened bdev may have: one below IO_PER_THREAD, so
\* that thread_work overruns it, and one so deep that it never rejects any
\* of the reads this program can have outstanding.
SmallQueueDepth == 2
RT_QueueDepths == {SmallQueueDepth, 2 * RT_THREADS_PER_REACTOR * RT_IO_PER_THREAD}

\* The reactor is not inside any thread_work.
RT_NoCur == [t |-> -1, i |-> 0]

RT_Init ==
    /\ rt_app = "init"
    /\ rt_g_desc = "null"
    /\ rt_g_total_expected = 0
    /\ rt_g_total_completed = 0
    /\ rt_msg = [t \in RT_Threads |-> "none"]
    /\ rt_ch = [t \in RT_Threads |-> "null"]
    /\ rt_submitted = [t \in RT_Threads |-> 0]
    /\ rt_completed = [t \in RT_Threads |-> 0]
    /\ rt_inflight = [t \in RT_Threads |-> 0]
    /\ rt_qdepth = 0
    /\ rt_cur = RT_NoCur
    /\ rt_last = "none"
    /\ rt_callbacks = 0
    /\ rt_stop_calls = 0
    /\ rt_rc = 0
    /\ rt_exit = 0
    /\ rt_live_tasks = 0
    /\ rt_live_bufs = 0

\* The expected total without the factor THREADS_PER_REACTOR.
RT_Expected_one_thread == RT_IO_PER_THREAD

\* app_start: g_total_expected = THREADS_PER_REACTOR * IO_PER_THREAD
RT_Expected == RT_THREADS_PER_REACTOR * RT_IO_PER_THREAD

\* app_start: open the bdev; on failure spdk_app_stop(-1), otherwise set the
\* totals, reset every thread's counters and post thread_work to each thread.
RT_app_start ==
    /\ rt_app = "init"
    /\ \E rc \in {0, -1} :
         IF rc # 0
         THEN /\ rt_rc' = -1
              /\ rt_app' = "stopping"
              /\ UNCHANGED << rt_g_desc, rt_g_total_expected, rt_g_total_completed,
                              rt_msg, rt_submitted, rt_completed, rt_qdepth >>
         ELSE /\ rt_g_desc' = "open"
              /\ rt_qdepth' \in RT_QueueDepths
              /\ rt_g_total_expected' = RT_Expected
              /\ rt_g_total_completed' = 0
              /\ rt_submitted' = [t \in RT_Threads |-> 0]
              /\ rt_completed' = [t \in RT_Threads |-> 0]
              /\ rt_msg' = [t \in RT_Threads |-> "queued"]
              /\ rt_app' = "running"
              /\ UNCHANGED rt_rc
    /\ UNCHANGED << rt_ch, rt_inflight, rt_cur, rt_last, rt_callbacks, rt_stop_calls,
                    rt_exit, rt_live_tasks, rt_live_bufs >>
    /\ UNCHANGED rtOthers

\* thread_work up to its loop: take the I/O channel; return if there is none.
RT_thread_work(t) ==
    /\ rt_app \in {"running", "stopping"}
    /\ rt_msg[t] = "queued"
    /\ rt_cur = RT_NoCur
    /\ rt_msg' = [rt_msg EXCEPT ![t] = "done"]
    /\ \E ch \in {"null", "open"} :
         /\ rt_ch' = [rt_ch EXCEPT ![t] = ch]
         /\ rt_cur' = IF ch = "null" THEN RT_NoCur ELSE [t |-> t, i |-> 0]
    /\ UNCHANGED << rt_app, rt_g_desc, rt_g_total_expected, rt_g_total_completed,
                    rt_submitted, rt_completed, rt_inflight, rt_qdepth, rt_last,
                    rt_callbacks, rt_stop_calls, rt_rc, rt_exit, rt_live_tasks, rt_live_bufs >>
    /\ UNCHANGED rtOthers

\* Off-by-one loop bound: one read too many per thread.
RT_LoopCond_inclusive(i) == i <= RT_IO_PER_THREAD

\* thread_work: for (i = 0; i < IO_PER_THREAD; ++i)
RT_LoopCond(i) == i < RT_IO_PER_THREAD

\* The bdev layer has no room for another read on the channel of thread t.
RT_QueueFull(t) == rt_inflight[t] >= rt_qdepth

\* t->submitted++ placed before the test of rc: a rejected read is counted.
RT_SubmittedAfter_unconditional(submitted, rc) == submitted + 1

\* t->submitted++ placed in the error branch instead of the success branch.
RT_SubmittedAfter_inverted(submitted, rc) == IF rc # 0 THEN submitted + 1 ELSE submitted

\* submit_one_io: if (rc == 0) t->submitted++; else free buffer and task.
RT_SubmittedAfter(submitted, rc) == IF rc = 0 THEN submitted + 1 ELSE submitted

\* The spdk_zmalloc failure path returning without free(task).
RT_TasksAfter_leak(tasks, alloc, rc) ==
    IF alloc = "no_task" THEN tasks
    ELSE IF alloc = "no_buf" THEN tasks + 1
    ELSE IF rc = 0 THEN tasks + 1 ELSE tasks

\* submit_one_io, the io_task objects alive after the call: none is made when
\* calloc fails; the task is freed again when spdk_zmalloc fails or the read
\* is rejected; an accepted read keeps its task until io_complete.
RT_TasksAfter(tasks, alloc, rc) ==
    IF alloc = "no_task" THEN tasks
    ELSE IF alloc = "no_buf" THEN tasks
    ELSE IF rc = 0 THEN tasks + 1 ELSE tasks

\* One loop iteration of thread_work: submit_one_io(t, lba, 1).
\*   alloc = "no_task": calloc failed;  "no_buf": spdk_zmalloc failed, task freed;
\*   alloc = "ok": spdk_bdev_read is called and returns rc.
RT_submit_one_io ==
    LET t == rt_cur.t IN
    /\ rt_cur # RT_NoCur
    /\ RT_LoopCond(rt_cur.i)
    /\ rt_cur' = [rt_cur EXCEPT !.i = @ + 1]
    /\ \E alloc \in {"ok", "no_task", "no_buf"}, rc \in SubmitRcs :
         IF alloc # "ok"
         THEN /\ rt_last' = "abandoned"
              /\ rt_live_tasks' = RT_TasksAfter(rt_live_tasks, alloc, rc)
              /\ UNCHANGED << rt_submitted, rt_inflight, rt_live_bufs >>
         ELSE /\ (RT_QueueFull(t) => rc # 0)
              /\ rt_submitted' = [rt_submitted EXCEPT ![t] = RT_SubmittedAfter(@, rc)]
              /\ rt_inflight' = [rt_inflight EXCEPT ![t] = IF rc = 0 THEN @ + 1 ELSE @]
              /\ rt_live_tasks' = RT_TasksAfter(rt_live_tasks, alloc, rc)
              /\ rt_live_bufs' = IF rc = 0 THEN rt_live_bufs + 1 ELSE rt_live_bufs
              /\ rt_last' = IF rc = 0 THEN "accepted" ELSE "rejected"
    /\ UNCHANGED << rt_app, rt_g_desc, rt_g_total_expected, rt_g_total_completed,
                    rt_msg, rt_ch, rt_completed, rt_qdepth, rt_callbacks,
                    rt_stop_calls, rt_rc, rt_exit >>
    /\ UNCHANGED rtOthers

\* thread_work: the loop condition fails and the handler returns.
RT_thread_work_return ==
    /\ rt_cur # RT_NoCur
    /\ ~RT_LoopCond(rt_cur.i)
    /\ rt_cur' = RT_NoCur
    /\ rt_last' = "none"
    /\ UNCHANGED << rt_app, rt_g_desc, rt_g_total_expected, rt_g_total_completed,
                    rt_msg, rt_ch, rt_submitted, rt_completed, rt_inflight, rt_qdepth,
                    rt_callbacks, rt_stop_calls, rt_rc, rt_exit, rt_live_tasks, rt_live_bufs >>
    /\ UNCHANGED rtOthers

\* Counting only the reads that succeeded.
RT_CompletedAfter_success_only(completed, success) ==
    IF success THEN completed + 1 ELSE completed

\* io_complete: t->completed++ whatever `success` is.
RT_CompletedAfter(completed, success) == completed + 1

\* The global counter bumped for successful reads only.
RT_TotalAfter_success_only(total, success) == IF success THEN total + 1 ELSE total

\* The global counter bumped twice per completion.
RT_TotalAfter_double(total, success) == total + 2

\* io_complete: __atomic_fetch_add(&g_total_completed, 1, ...)
RT_TotalAfter(total, success) == total + 1

\* io_complete(bdev_io, success, task) for a read of thread t.  All threads
\* share the one reactor, so the callback runs between handlers, never
\* inside one.
RT_io_complete(t, success) ==
    /\ rt_app \in {"running", "stopping"}
    /\ rt_cur = RT_NoCur
    /\ rt_inflight[t] > 0
    /\ rt_inflight' = [rt_inflight EXCEPT ![t] = @ - 1]
    /\ rt_completed' = [rt_completed EXCEPT ![t] = RT_CompletedAfter(@, success)]
    /\ rt_g_total_completed' = RT_TotalAfter(rt_g_total_completed, success)
    /\ rt_live_bufs' = rt_live_bufs - 1
    /\ rt_live_tasks' = rt_live_tasks - 1
    /\ rt_callbacks' = rt_callbacks + 1
    /\ rt_last' = IF success THEN "ok" ELSE "fail"
    /\ IF rt_g_total_completed' = rt_g_total_expected
       THEN /\ rt_stop_calls' = rt_stop_calls + 1
            /\ rt_rc' = 0
            /\ rt_app' = "stopping"
       ELSE UNCHANGED << rt_stop_calls, rt_rc, rt_app >>
    /\ UNCHANGED << rt_g_desc, rt_g_total_expected, rt_msg, rt_ch, rt_submitted,
                    rt_qdepth, rt_cur, rt_exit >>
    /\ UNCHANGED rtOthers

\* main: rc = spdk_app_start(...); spdk_app_fini(); return rc;
RT_main_return ==
    /\ rt_app = "stopping"
    /\ rt_cur = RT_NoCur
    /\ rt_app' = "exited"
    /\ rt_exit' = rt_rc
    /\ UNCHANGED << rt_g_desc, rt_g_total_expected, rt_g_total_completed, rt_msg, rt_ch,
                    rt_submitted, rt_completed, rt_inflight, rt_qdepth, rt_cur, rt_last,
                    rt_callbacks, rt_stop_calls, rt_rc, rt_live_tasks, rt_live_bufs >>
    /\ UNCHANGED rtOthers

RT_Next ==
    \/ RT_app_start
    \/ \E t \in RT_Threads : RT_thread_work(t)
    \/ RT_submit_one_io
    \/ RT_thread_work_return
    \/ \E t \in RT_Threads, success \in BOOLEAN : RT_io_complete(t, success)
    \/ RT_main_return

(***************************************************************************)
(*                 nvme_multicore_multi_qpair.c                            *)
(***************************************************************************)
MQ_NUM_QPAIR == 4
MQ_IO_PER_QP == 4
MQ_CORES == 2

MQ_Cores == 0 .. (MQ_CORES - 1)
MQ_Qpairs == 0 .. (MQ_NUM_QPAIR - 1)

MQ_Init ==
    /\ mq_app = "init"
    /\ mq_ctrlr = "null"
    /\ mq_qpair = [c \in MQ_Cores |-> [q \in MQ_Qpairs |-> "unset"]]
    /\ mq_event = [c \in MQ_Cores |-> "none"]
    /\ mq_cur = [c \in MQ_Cores |-> 0]
    /\ mq_accepted = [c \in MQ_Cores |-> [q \in MQ_Qpairs |-> 0]]
    /\ mq_cb_invoked = [c \in MQ_Cores |-> [q \in MQ_Qpairs |-> 0]]
    /\ mq_users = [c \in MQ_Cores |-> [q \in MQ_Qpairs |-> {}]]

\* app_start runs on the app thread, which lives on the first core of
\* reactor_mask 0x3.
MQ_AppCore == 0

\* init_ctrlr on freshly malloc'ed memory: qpairs are allocated in index
\* order and the function returns -1 at the first allocation that fails
\* (index k), leaving the later entries unset; k = NUM_QPAIR: none fails.
MQ_init_ctrlr(k) ==
    [q \in MQ_Qpairs |-> IF q < k THEN "alloc" ELSE IF q = k THEN "null" ELSE "unset"]

\* app_start: connect to the controller (return if that fails); for each
\* core build a thread_ctx with init_ctrlr, whose result is ignored, and post
\* thread_work to the core.  spdk_app_stop is never called in this file.
MQ_app_start ==
    /\ mq_app = "init"
    /\ mq_app' = "running"
    /\ \E ctrlr \in {"null", "connected"} :
         /\ mq_ctrlr' = ctrlr
         /\ IF ctrlr = "null"
            THEN UNCHANGED << mq_qpair, mq_event, mq_users >>
            ELSE /\ \E k \in [MQ_Cores -> 0 .. MQ_NUM_QPAIR] :
                      /\ mq_qpair' = [c \in MQ_Cores |-> MQ_init_ctrlr(k[c])]
                      /\ mq_users' = [c \in MQ_Cores |-> [q \in MQ_Qpairs |->
                                         IF q < k[c] THEN {MQ_AppCore} ELSE {}]]
                 /\ mq_event' = [c \in MQ_Cores |-> "queued"]
    /\ UNCHANGED << mq_cur, mq_accepted, mq_cb_invoked >>
    /\ UNCHANGED mqOthers

\* thread_work on core c starts: the event posted by app_start is picked up
\* by the reactor of core c and the outer loop starts at qpair 0.
MQ_thread_work(c) ==
    /\ mq_app = "running"
    /\ mq_event[c] = "queued"
    /\ mq_event' = [mq_event EXCEPT ![c] = "running"]
    /\ mq_cur' = [mq_cur EXCEPT ![c] = 0]
    /\ UNCHANGED << mq_app, mq_ctrlr, mq_qpair, mq_accepted, mq_cb_invoked, mq_users >>
    /\ UNCHANGED mqOthers

\* One iteration of thread_work's outer loop on core c: one buffer and
\* IO_PER_QP reads on qpair mq_cur[c], acc of which the driver accepts.  A
\* read issued on a qpair that was never allocated ends the process.  After
\* the last qpair the handler returns.  Nothing in this file ever calls
\* spdk_nvme_qpair_process_completions, so no step of the program invokes
\* io_complete.
MQ_submit_qpair(c) ==
    LET q == mq_cur[c] IN
    /\ mq_app = "running"
    /\ mq_event[c] = "running"
    /\ IF mq_qpair[c][q] # "alloc"
       THEN /\ mq_app' = "crashed"
            /\ UNCHANGED << mq_event, mq_cur, mq_accepted, mq_users >>
       ELSE /\ \E acc \in 0 .. MQ_IO_PER_QP :
                 mq_accepted' = [mq_accepted EXCEPT ![c][q] = acc]
            /\ mq_users' = [mq_users EXCEPT ![c][q] = @ \cup {c}]
            /\ mq_cur' = [mq_cur EXCEPT ![c] = IF q + 1 < MQ_NUM_QPAIR THEN q + 1 ELSE 0]
            /\ mq_event' = [mq_event EXCEPT ![c] = IF q + 1 < MQ_NUM_QPAIR THEN "running" ELSE "done"]
            /\ UNCHANGED mq_app
    /\ UNCHANGED << mq_ctrlr, mq_qpair, mq_cb_invoked >>
    /\ UNCHANGED mqOthers

MQ_Next ==
    \/ MQ_app_start
    \/ \E c \in MQ_Cores : MQ_thread_work(c)
    \/ \E c \in MQ_Cores : MQ_submit_qpair(c)

(***************************************************************************)
(*      bdev_reactor_multi_threads.c: the LBA chosen by thread_work        *)
(***************************************************************************)
\* Largest block count the device reports here; it covers nb = 0,
\* nb < IO_PER_THREAD and nb > IO_PER_THREAD.
MaxBlocks == 12

TW_Init ==
    /\ tw_pc = "start"
    /\ tw_nb = 0
    /\ tw_i = 0
    /\ tw_lba = 0

\* thread_work: uint64_t lba = (i % (nb ? nb : 1));
RT_Lba(i, nb) == i % (IF nb # 0 THEN nb ELSE 1)

\* thread_work: nb = spdk_bdev_get_num_blocks(t->bdev); i = 0.
TW_get_num_blocks ==
    /\ tw_pc = "start"
    /\ tw_nb' \in 0 .. MaxBlocks
    /\ tw_i' = 0
    /\ tw_pc' = "loop"
    /\ UNCHANGED tw_lba
    /\ UNCHANGED twOthers

\* thread_work: one loop iteration, lba is computed and given to submit_one_io.
TW_iteration ==
    /\ tw_pc = "loop"
    /\ RT_LoopCond(tw_i)
    /\ tw_lba' = RT_Lba(tw_i, tw_nb)
    /\ tw_i' = tw_i + 1
    /\ UNCHANGED << tw_pc, tw_nb >>
    /\ UNCHANGED twOthers

\* thread_work: the loop ends.
TW_return ==
    /\ tw_pc = "loop"
    /\ ~RT_LoopCond(tw_i)
    /\ tw_pc' = "done"
    /\ UNCHANGED << tw_nb, tw_i, tw_lba >>
    /\ UNCHANGED twOthers

TW_Next ==
    \/ TW_get_num_blocks
    \/ TW_iteration
    \/ TW_return

(***************************************************************************)
(*                             bdev_nvme.c                                 *)
(***************************************************************************)
BN_Init ==
    /\ bn_pc = "env_init"
    /\ bn_desc = "null"
    /\ bn_ch = "null"
    /\ bn_io_submitted = 0
    /\ bn_io_completed = 0
    /\ bn_inflight = 0
    /\ bn_live_bufs = 0
    /\ bn_exit = 0

\* main: if (spdk_env_init(&opts) < 0) return -1;
BN_env_init ==
    /\ bn_pc = "env_init"
    /\ \E rc \in SubmitRcs :
        IF rc < 0
        THEN bn_pc' = "exited" /\ bn_exit' = -1
        ELSE bn_pc' = "get_by_name" /\ UNCHANGED bn_exit
    /\ UNCHANGED << bn_desc, bn_ch, bn_io_submitted, bn_io_completed, bn_inflight,
                    bn_live_bufs >>
    /\ UNCHANGED bnOthers

\* main: bdev = spdk_bdev_get_by_name("Nvme0n1"); if (!bdev) return -1;
BN_get_by_name ==
    /\ bn_pc = "get_by_name"
    /\ \E found \in BOOLEAN :
        IF found
        THEN bn_pc' = "open" /\ UNCHANGED bn_exit
        ELSE bn_pc' = "exited" /\ bn_exit' = -1
    /\ UNCHANGED << bn_desc, bn_ch, bn_io_submitted, bn_io_completed, bn_inflight,
                    bn_live_bufs >>
    /\ UNCHANGED bnOthers

BN_OpenFailed_ignored(rc) == FALSE

\* main: if (spdk_bdev_open(...) != 0) ... return -1;
BN_OpenFailed(rc) == rc # 0

\* main: spdk_bdev_open fills ctx.desc when it returns 0.
BN_open ==
    /\ bn_pc = "open"
    /\ \E rc \in SubmitRcs :
        /\ bn_desc' = IF rc = 0 THEN "open" ELSE "null"
        /\ IF BN_OpenFailed(rc)
           THEN bn_pc' = "exited" /\ bn_exit' = -1
           ELSE bn_pc' = "get_channel" /\ UNCHANGED bn_exit
    /\ UNCHANGED << bn_ch, bn_io_submitted, bn_io_completed, bn_inflight, bn_live_bufs >>
    /\ UNCHANGED bnOthers

\* main: ctx.ch = spdk_bdev_get_io_channel(ctx.desc); if (!ctx.ch) return -1;
\* then ctx.io_submitted = 0; ctx.io_completed = 0;
BN_get_io_channel ==
    /\ bn_pc = "get_channel"
    /\ \E got \in BOOLEAN :
        IF got
        THEN /\ bn_ch' = "open"
             /\ bn_pc' = "submit"
             /\ bn_io_submitted' = 0
             /\ bn_io_completed' = 0
             /\ UNCHANGED bn_exit
        ELSE /\ bn_ch' = "null"
             /\ bn_pc' = "exited"
             /\ bn_exit' = -1
             /\ UNCHANGED << bn_io_submitted, bn_io_completed >>
    /\ UNCHANGED << bn_desc, bn_inflight, bn_live_bufs >>
    /\ UNCHANGED bnOthers

\* submit_bdev_io: one buffer, one read; io_submitted++ only when rc == 0,
\* the buffer is freed when the read is rejected.
BN_submit_bdev_io ==
    /\ bn_pc = "submit"
    /\ \E alloc \in BOOLEAN, rc \in SubmitRcs :
        IF alloc /\ rc = 0
        THEN /\ bn_io_submitted' = bn_io_submitted + 1
             /\ bn_inflight' = bn_inflight + 1
             /\ bn_live_bufs' = bn_live_bufs + 1
        ELSE UNCHANGED << bn_io_submitted, bn_inflight, bn_live_bufs >>
    /\ bn_pc' = "poll"
    /\ UNCHANGED << bn_desc, bn_ch, bn_io_completed, bn_exit >>
    /\ UNCHANGED bnOthers

BN_PollLoopCond_inverted(completed, submitted) == completed > submitted

\* main: while (ctx.io_completed < ctx.io_submitted)
BN_PollLoopCond(completed, submitted) == completed < submitted

\* main: one iteration of the poll loop.  spdk_bdev_poll runs io_complete for a
\* read that is ready: io_completed++, spdk_bdev_free_io; the data buffer is
\* not freed.  success only selects a message.
BN_poll ==
    /\ bn_pc = "poll"
    /\ BN_PollLoopCond(bn_io_completed, bn_io_submitted)
    /\ \E ready \in BOOLEAN :
        IF ready /\ bn_inflight > 0
        THEN /\ bn_io_completed' = bn_io_completed + 1
             /\ bn_inflight' = bn_inflight - 1
        ELSE UNCHANGED << bn_io_completed, bn_inflight >>
    /\ UNCHANGED << bn_pc, bn_desc, bn_ch, bn_io_submitted, bn_live_bufs, bn_exit >>
    /\ UNCHANGED bnOthers

\* main: the poll loop is left; spdk_put_io_channel(ctx.ch);
BN_put_io_channel ==
    /\ bn_pc = "poll"
    /\ ~BN_PollLoopCond(bn_io_completed, bn_io_submitted)
    /\ bn_ch' = "released"
    /\ bn_pc' = "close"
    /\ UNCHANGED << bn_desc, bn_io_submitted, bn_io_completed, bn_inflight, bn_live_bufs,
                    bn_exit >>
    /\ UNCHANGED bnOthers

\* main: spdk_bdev_close(ctx.desc); return 0;
BN_bdev_close ==
    /\ bn_pc = "close"
    /\ bn_desc' = "closed"
    /\ bn_pc' = "exited"
    /\ bn_exit' = 0
    /\ UNCHANGED << bn_ch, bn_io_submitted, bn_io_completed, bn_inflight, bn_live_bufs >>
    /\ UNCHANGED bnOthers

BN_Next ==
    \/ BN_env_init
    \/ BN_get_by_name
    \/ BN_open
    \/ BN_get_io_channel
    \/ BN_submit_bdev_io
    \/ BN_poll
    \/ BN_put_io_channel
    \/ BN_bdev_close

(***************************************************************************)
(*                          bdev_nvme_multi.c                              *)
(***************************************************************************)
BM_NUM_REACTORS == 2
BM_IO_PER_REACTOR == 4

BM_Cores == 0 .. (BM_NUM_REACTORS - 1)

BM_Init ==
    /\ bm_pc = "env_init"
    /\ bm_desc = "null"
    /\ bm_launched = 0
    /\ bm_exit = 0
    /\ bm_thread = [c \in BM_Cores |-> "none"]
    /\ bm_ch = [c \in BM_Cores |-> "null"]
    /\ bm_i = [c \in BM_Cores |-> 0]
    /\ bm_io_submitted = [c \in BM_Cores |-> 0]
    /\ bm_io_completed = [c \in BM_Cores |-> 0]
    /\ bm_inflight = [c \in BM_Cores |-> 0]
    /\ bm_live_bufs = 0

bmThreadVars == << bm_thread, bm_ch, bm_i, bm_io_submitted, bm_io_completed, bm_inflight,
                  bm_live_bufs >>

\* main: if (spdk_env_init(&opts) < 0) return -1;
BM_env_init ==
    /\ bm_pc = "env_init"
    /\ \E rc \in SubmitRcs :
        IF rc < 0
        THEN bm_pc' = "exited" /\ bm_exit' = -1
        ELSE bm_pc' = "get_by_name" /\ UNCHANGED bm_exit
    /\ UNCHANGED << bm_desc, bm_launched, bmThreadVars >>
    /\ UNCHANGED bmOthers

\* main: bdev = spdk_bdev_get_by_name("Nvme0n1"); if (!bdev) return -1;
BM_get_by_name ==
    /\ bm_pc = "get_by_name"
    /\ \E found \in BOOLEAN :
        IF found
        THEN bm_pc' = "open" /\ UNCHANGED bm_exit
        ELSE bm_pc' = "exited" /\ bm_exit' = -1
    /\ UNCHANGED << bm_desc, bm_launched, bmThreadVars >>
    /\ UNCHANGED bmOthers

\* main: spdk_bdev_open into ctx[0].desc, return -1 on failure; then every
\* ctx[i] gets the shared desc and zeroed counters.
BM_open ==
    /\ bm_pc = "open"
    /\ \E rc \in SubmitRcs :
        IF rc # 0
        THEN /\ bm_pc' = "exited"
             /\ bm_exit' = -1
             /\ UNCHANGED << bm_desc, bm_io_submitted, bm_io_completed >>
        ELSE /\ bm_pc' = "launch"
             /\ bm_desc' = "open"
             /\ bm_io_submitted' = [c \in BM_Cores |-> 0]
             /\ bm_io_completed' = [c \in BM_Cores |-> 0]
             /\ UNCHANGED bm_exit
    /\ UNCHANGED << bm_launched, bm_thread, bm_ch, bm_i, bm_inflight, bm_live_bufs >>
    /\ UNCHANGED bmOthers

\* main: spdk_env_thread_launch_pinned(i, reactor_thread, &ctx[i]); after the
\* last launch main stays in its monitor loop, which only prints the counters.
BM_launch ==
    /\ bm_pc = "launch"
    /\ bm_thread' = [bm_thread EXCEPT ![bm_launched] = "start"]
    /\ bm_launched' = bm_launched + 1
    /\ bm_pc' = IF bm_launched + 1 < BM_NUM_REACTORS THEN "launch" ELSE "monitor"
    /\ UNCHANGED << bm_desc, bm_exit, bm_ch, bm_i, bm_io_submitted, bm_io_completed,
                    bm_inflight, bm_live_bufs >>
    /\ UNCHANGED bmOthers

\* reactor_thread: ctx->ch = spdk_bdev_get_io_channel(ctx->desc); return -1 when NULL.
BM_get_io_channel(c) ==
    /\ bm_thread[c] = "start"
    /\ \E got \in BOOLEAN :
        IF got
        THEN /\ bm_ch' = [bm_ch EXCEPT ![c] = "open"]
             /\ bm_thread' = [bm_thread EXCEPT ![c] = "submit"]
        ELSE /\ bm_ch' = [bm_ch EXCEPT ![c] = "null"]
             /\ bm_thread' = [bm_thread EXCEPT ![c] = "returned"]
    /\ bm_i' = [bm_i EXCEPT ![c] = 0]
    /\ UNCHANGED << bm_pc, bm_desc, bm_launched, bm_exit, bm_io_submitted,
                    bm_io_completed, bm_inflight, bm_live_bufs >>
    /\ UNCHANGED bmOthers

\* submit_io: for (int i = 0; i < IO_PER_REACTOR; i++)
BM_LoopCond(i) == i < BM_IO_PER_REACTOR

\* submit_io: one loop iteration; a failed spdk_zmalloc skips the read,
\* io_submitted++ only when rc == 0, a rejected read's buffer is freed.
BM_submit_io_iteration(c) ==
    /\ bm_thread[c] = "submit"
    /\ BM_LoopCond(bm_i[c])
    /\ \E alloc \in BOOLEAN, rc \in SubmitRcs :
        IF alloc /\ rc = 0
        THEN /\ bm_io_submitted' = [bm_io_submitted EXCEPT ![c] = @ + 1]
             /\ bm_inflight' = [bm_inflight EXCEPT ![c] = @ + 1]
             /\ bm_live_bufs' = bm_live_bufs + 1
        ELSE UNCHANGED << bm_io_submitted, bm_inflight, bm_live_bufs >>
    /\ bm_i' = [bm_i EXCEPT ![c] = @ + 1]
    /\ UNCHANGED << bm_pc, bm_desc, bm_launched, bm_exit, bm_thread, bm_ch,
                    bm_io_completed >>
    /\ UNCHANGED bmOthers

\* reactor_thread: submit_io returns, the poll loop starts.
BM_submit_io_return(c) ==
    /\ bm_thread[c] = "submit"
    /\ ~BM_LoopCond(bm_i[c])
    /\ bm_thread' = [bm_thread EXCEPT ![c] = "poll"]
    /\ UNCHANGED << bm_pc, bm_desc, bm_launched, bm_exit, bm_ch, bm_i, bm_io_submitted,
                    bm_io_completed, bm_inflight, bm_live_bufs >>
    /\ UNCHANGED bmOthers

\* reactor_thread: while (true) spdk_bdev_poll(ctx->ch), which runs io_complete
\* for a read that is ready: io_completed++, spdk_bdev_free_io.
BM_poll(c) ==
    /\ bm_thread[c] = "poll"
    /\ bm_inflight[c] > 0
    /\ bm_io_completed' = [bm_io_completed EXCEPT ![c] = @ + 1]
    /\ bm_inflight' = [bm_inflight EXCEPT ![c] = @ - 1]
    /\ UNCHANGED << bm_pc, bm_desc, bm_launched, bm_exit, bm_thread, bm_ch, bm_i,
                    bm_io_submitted, bm_live_bufs >>
    /\ UNCHANGED bmOthers

BM_Next ==
    \/ BM_env_init
    \/ BM_get_by_name
    \/ BM_open
    \/ BM_launch
    \/ \E c \in BM_Cores : BM_get_io_channel(c)
    \/ \E c \in BM_Cores : BM_submit_io_iteration(c)
    \/ \E c \in BM_Cores : BM_submit_io_return(c)
    \/ \E c \in BM_Cores : BM_poll(c)

(***************************************************************************)
(*                      spdk_nvme_multi_io_full.c                          *)
(***************************************************************************)
MF_NUM_REACTORS == 2
MF_QP_PER_REACTOR == 1

\* main: for (int i = 1; i < NUM_REACTORS; i++) zeroes the counters of ctx[i].
MF_FIRST_ZEROED == 1

MF_Cores == 0 .. (MF_NUM_REACTORS - 1)
MF_Qpairs == 0 .. (MF_QP_PER_REACTOR - 1)

\* Values an uninitialised uint64_t of main's frame may hold.
MaxGarbage == 2
MF_Indeterminate == 0 .. MaxGarbage

MF_Init ==
    /\ mf_pc = "env_init"
    /\ mf_ctrlr = "null"
    /\ mf_launched = 0
    /\ mf_exit = 0
    /\ mf_thread = [c \in MF_Cores |-> "none"]
    /\ mf_qpair = [c \in MF_Cores |-> [q \in MF_Qpairs |-> "unset"]]
    /\ mf_io_submitted = [c \in MF_Cores |-> 0]
    /\ mf_io_completed = [c \in MF_Cores |-> 0]
    /\ mf_inflight = [c \in MF_Cores |-> 0]
    /\ mf_live_bufs = 0

\* main is entered: struct reactor_context ctx[NUM_REACTORS] is a local without
\* initialiser, so its counters hold indeterminate values; then
\* if (spdk_env_init(&opts) < 0) return -1;
MF_env_init ==
    /\ mf_pc = "env_init"
    /\ mf_io_submitted' \in [MF_Cores -> MF_Indeterminate]
    /\ mf_io_completed' \in [MF_Cores -> MF_Indeterminate]
    /\ \E rc \in SubmitRcs :
        IF rc < 0
        THEN mf_pc' = "exited" /\ mf_exit' = -1
        ELSE mf_pc' = "connect" /\ UNCHANGED mf_exit
    /\ UNCHANGED << mf_ctrlr, mf_launched, mf_thread, mf_qpair, mf_inflight, mf_live_bufs >>
    /\ UNCHANGED mfOthers

\* main: ctx[0].ctrlr = spdk_nvme_connect(...), return -1 when NULL; then the
\* loop from i = 1 gives ctx[i] the controller and zeroes ctx[i]'s counters.
MF_connect ==
    /\ mf_pc = "connect"
    /\ \E ctrlr \in {"null", "connected"} :
        /\ mf_ctrlr' = ctrlr
        /\ IF ctrlr = "null"
           THEN /\ mf_pc' = "exited"
                /\ mf_exit' = -1
                /\ UNCHANGED << mf_io_submitted, mf_io_completed >>
           ELSE /\ mf_pc' = "launch"
                /\ mf_io_submitted' = [c \in MF_Cores |->
                       IF c >= MF_FIRST_ZEROED THEN 0 ELSE mf_io_submitted[c]]
                /\ mf_io_completed' = [c \in MF_Cores |->
                       IF c >= MF_FIRST_ZEROED THEN 0 ELSE mf_io_completed[c]]
                /\ UNCHANGED mf_exit
    /\ UNCHANGED << mf_launched, mf_thread, mf_qpair, mf_inflight, mf_live_bufs >>
    /\ UNCHANGED mfOthers

\* main: spdk_env_thread_launch_pinned(i, reactor_thread, &ctx[i]); after the
\* last launch main stays in its monitor loop, which only prints the counters.
MF_launch ==
    /\ mf_pc = "launch"
    /\ mf_thread' = [mf_thread EXCEPT ![mf_launched] = "start"]
    /\ mf_launched' = mf_launched + 1
    /\ mf_pc' = IF mf_launched + 1 < MF_NUM_REACTORS THEN "launch" ELSE "monitor"
    /\ UNCHANGED << mf_ctrlr, mf_exit, mf_qpair, mf_io_submitted, mf_io_completed,
                    mf_inflight, mf_live_bufs >>
    /\ UNCHANGED mfOthers

\* reactor_thread: the qpairs are allocated in index order; return -1 at the
\* first allocation that fails (index k); k = QP_PER_REACTOR: none fails.
MF_alloc_qpairs(c) ==
    /\ mf_thread[c] = "start"
    /\ \E k \in 0 .. MF_QP_PER_REACTOR :
        /\ mf_qpair' = [mf_qpair EXCEPT ![c] = [q \in MF_Qpairs |->
               IF q < k THEN "alloc" ELSE IF q = k THEN "null" ELSE "unset"]]
        /\ mf_thread' = [mf_thread EXCEPT ![c] =
               IF k < MF_QP_PER_REACTOR THEN "returned" ELSE "submit"]
    /\ UNCHANGED << mf_pc, mf_ctrlr, mf_launched, mf_exit, mf_io_submitted,
                    mf_io_completed, mf_inflight, mf_live_bufs >>
    /\ UNCHANGED mfOthers

\* submit_io: one buffer (return when spdk_zmalloc fails), then one read per
\* qpair, acc of which the driver accepts; io_submitted++ for each accepted
\* read.  The buffer is never freed.  The poll loop starts afterwards.
MF_submit_io(c) ==
    /\ mf_thread[c] = "submit"
    /\ \E alloc \in BOOLEAN, acc \in 0 .. MF_QP_PER_REACTOR :
        IF alloc
        THEN /\ mf_io_submitted' = [mf_io_submitted EXCEPT ![c] = @ + acc]
             /\ mf_inflight' = [mf_inflight EXCEPT ![c] = @ + acc]
             /\ mf_live_bufs' = mf_live_bufs + 1
        ELSE UNCHANGED << mf_io_submitted, mf_inflight, mf_live_bufs >>
    /\ mf_thread' = [mf_thread EXCEPT ![c] = "poll"]
    /\ UNCHANGED << mf_pc, mf_ctrlr, mf_launched, mf_exit, mf_qpair, mf_io_completed >>
    /\ UNCHANGED mfOthers

\* reactor_thread: while (true) spdk_nvme_qpair_process_completions, which runs
\* io_complete for a read that is ready: ctx->io_completed++.
MF_process_completions(c) ==
    /\ mf_thread[c] = "poll"
    /\ mf_inflight[c] > 0
    /\ mf_io_completed' = [mf_io_completed EXCEPT ![c] = @ + 1]
    /\ mf_inflight' = [mf_inflight EXCEPT ![c] = @ - 1]
    /\ UNCHANGED << mf_pc, mf_ctrlr, mf_launched, mf_exit, mf_thread, mf_qpair,
                    mf_io_submitted, mf_live_bufs >>
    /\ UNCHANGED mfOthers

MF_Next ==
    \/ MF_env_init
    \/ MF_connect
    \/ MF_launch
    \/ \E c \in MF_Cores : MF_alloc_qpairs(c)
    \/ \E c \in MF_Cores : MF_submit_io(c)
    \/ \E c \in MF_Cores : MF_process_completions(c)

(***************************************************************************)
(*                            spdk_nvme_app.c                              *)
(***************************************************************************)
\* main: opts.reactor_mask = "0x0E", binary 1110: cores 1, 2, 3.
NA_Cores == {1, 2, 3}

NA_Init ==
    /\ na_pc = "env_init"
    /\ na_todo = {}
    /\ na_threads = {}
    /\ na_g_ctrlr = "null"
    /\ na_qpairs = 0
    /\ na_exit = 0

\* main: if (spdk_env_init(&opts) < 0) return -1; SPDK_ENV_FOREACH_CORE starts.
NA_env_init ==
    /\ na_pc = "env_init"
    /\ \E rc \in SubmitRcs :
        IF rc < 0
        THEN na_pc' = "exited" /\ na_exit' = -1 /\ UNCHANGED na_todo
        ELSE na_pc' = "threads" /\ na_todo' = NA_Cores /\ UNCHANGED na_exit
    /\ UNCHANGED << na_threads, na_g_ctrlr, na_qpairs >>
    /\ UNCHANGED naOthers

\* main: one iteration of SPDK_ENV_FOREACH_CORE, cores in ascending order:
\* spdk_thread_create(NULL, &core_mask), continue when it returns NULL.
NA_thread_create ==
    /\ na_pc = "threads"
    /\ LET core == CHOOSE c \in na_todo : \A d \in na_todo : c <= d IN
        /\ \E created \in BOOLEAN :
              na_threads' = IF created THEN na_threads \cup {core} ELSE na_threads
        /\ na_todo' = na_todo \ {core}
        /\ na_pc' = IF na_todo = {core} THEN "probe" ELSE "threads"
    /\ UNCHANGED << na_g_ctrlr, na_qpairs, na_exit >>
    /\ UNCHANGED naOthers

\* main: spdk_nvme_probe, return -1 when it fails; attach_cb stores the
\* controller in g_ctrlr when one was attached.
NA_probe ==
    /\ na_pc = "probe"
    /\ \E rc \in SubmitRcs, attached \in BOOLEAN :
        IF rc # 0
        THEN /\ na_pc' = "exited"
             /\ na_exit' = -1
             /\ UNCHANGED na_g_ctrlr
        ELSE /\ na_pc' = "qpair"
             /\ na_g_ctrlr' = IF attached THEN "attached" ELSE "null"
             /\ UNCHANGED na_exit
    /\ UNCHANGED << na_todo, na_threads, na_qpairs >>
    /\ UNCHANGED naOthers

\* main: if (g_ctrlr) one call of spdk_nvme_ctrlr_alloc_io_qpair; then
\* spdk_env_fini(); return 0;
NA_alloc_io_qpair ==
    /\ na_pc = "qpair"
    /\ IF na_g_ctrlr # "null"
       THEN \E qp \in {"null", "alloc"} :
               na_qpairs' = IF qp = "alloc" THEN na_qpairs + 1 ELSE na_qpairs
       ELSE UNCHANGED na_qpairs
    /\ na_pc' = "exited"
    /\ na_exit' = 0
    /\ UNCHANGED << na_todo, na_threads, na_g_ctrlr >>
    /\ UNCHANGED naOthers

NA_Next ==
    \/ NA_env_init
    \/ NA_thread_create
    \/ NA_probe
    \/ NA_alloc_io_qpair

(***************************************************************************)
(*                          Specifications                                 *)
(***************************************************************************)
Init ==
    /\ MC_Init /\ RT_Init /\ MQ_Init /\ TW_Init /\ BN_Init /\ BM_Init
    /\ MF_Init /\ NA_Init

SpecMC == Init /\ [][MC_Next]_vars

SpecRT == Init /\ [][RT_Next]_vars

SpecMQ == Init /\ [][MQ_Next]_vars

SpecLba == Init /\ [][TW_Next]_vars

\* bdev_nvme and bdev_nvme_multi, two processes run side by side.
BdevNvme_Next ==
    \/ BN_Next
    \/ BM_Next

SpecBdevNvme == Init /\ [][BdevNvme_Next]_vars

\* spdk_nvme_multi_io_full and spdk_nvme_app, two processes run side by side.
NvmeMain_Next ==
    \/ MF_Next
    \/ NA_Next

SpecNvmeMain == Init /\ [][NvmeMain_Next]_vars

(***************************************************************************)
(*                             Properties                                  *)
(***************************************************************************)
MC_AllIdle == \A r \in MC_Reactors : mc_reactor[r].op = "idle"

\* C1: the shutdown trigger spdk_app_stop(0) of io_complete fires exactly
\* once in every run in which all expected completions occur: never twice,
\* and once every expected callback has returned it has fired.
C1_StopExactlyOnce ==
    /\ mc_stop_calls <= 1
    /\ (mc_g_desc = "open" /\ MC_AllIdle /\ mc_callbacks = mc_g_total_expected)
           => mc_stop_calls = 1

\* C2: no increment of the global completed counter is lost: whenever no
\* callback is in progress, g_total_completed equals the number of
\* completion callbacks that have run.
C2_NoLostUpdate ==
    MC_AllIdle => mc_g_total_completed = mc_callbacks

\* C3: completed <= submitted <= expected in every state: per thread
\* completed <= submitted <= IO_PER_THREAD, and globally
\* g_total_completed <= sum of the threads' submitted <= g_total_expected.
C3_CounterOrder ==
    /\ \A t \in RT_Threads :
          /\ rt_completed[t] <= rt_submitted[t]
          /\ rt_submitted[t] <= RT_IO_PER_THREAD
    /\ rt_g_total_completed <= Sum(rt_submitted)
    /\ Sum(rt_submitted) <= rt_g_total_expected

\* C3 witness: every thread submitted all its reads and all of them completed,
\* so every inequality of C3 is met with equality.
C3_Witness ==
    /\ \A t \in RT_Threads : rt_completed[t] = RT_IO_PER_THREAD
    /\ rt_g_total_completed = rt_g_total_expected
    /\ rt_g_total_expected > 0

\* C4: Scenario A: 2 reactors x 2 threads x 4 reads, every read accepted and
\* completed: expected is 16 and once all 16 callbacks have run the shutdown
\* trigger has been reached.
C4_ScenarioA ==
    (mc_g_desc = "open" /\ MC_AllIdle /\ mc_callbacks = 2 * 2 * 4)
        => (mc_g_total_expected = 2 * 2 * 4 /\ mc_stop_calls >= 1)

\* Program nvme_multicore_multi_qpair has nothing left to run: app_start
\* returned and every posted thread_work returned.
MQ_Quiescent ==
    /\ mq_app = "running"
    /\ \A c \in MQ_Cores : mq_event[c] \in {"none", "done"}

\* C5: every read accepted at submission has its completion callback invoked
\* exactly once: when the program has run all its handlers, each qpair has
\* seen as many callbacks as reads it accepted.
C5_AcceptedReadCompletes ==
    /\ \A c \in MQ_Cores, q \in MQ_Qpairs : mq_cb_invoked[c][q] <= mq_accepted[c][q]
    /\ MQ_Quiescent =>
          \A c \in MQ_Cores, q \in MQ_Qpairs : mq_cb_invoked[c][q] = mq_accepted[c][q]

\* C6: every buffer allocated for a read is freed exactly once: when no read
\* is outstanding and no handler is running, no allocated buffer remains.
C6_BufferFreed ==
    (MC_AllIdle /\ \A t \in MC_Threads : mc_msg[t] # "queued" /\ mc_inflight[t] = 0)
        => mc_live_bufs = 0

\* A step that is an io_complete callback reporting failure.
RT_FailedCompletionStep ==
    /\ rt_callbacks' = rt_callbacks + 1
    /\ rt_last' = "fail"

\* C7: a read that completes with success == false counts like a successful
\* one: one thread's completed counter and the global counter each grow by
\* one, the terminal count triggers shutdown, and nothing is resubmitted.
C7_FailedReadCounts ==
    [][RT_FailedCompletionStep =>
          /\ \E t \in RT_Threads :
                /\ rt_completed'[t] = rt_completed[t] + 1
                /\ rt_inflight'[t] = rt_inflight[t] - 1
                /\ \A u \in RT_Threads \ {t} :
                      rt_completed'[u] = rt_completed[u] /\ rt_inflight'[u] = rt_inflight[u]
          /\ rt_g_total_completed' = rt_g_total_completed + 1
          /\ rt_submitted' = rt_submitted
          /\ (rt_g_total_completed' = rt_g_total_expected
                 => rt_stop_calls' = rt_stop_calls + 1 /\ rt_app' = "stopping")
      ]_vars

\* C7 witness: the completion that reached the terminal count and triggered
\* shutdown was a failed read.
C7_Witness ==
    /\ rt_last = "fail"
    /\ rt_stop_calls = 1
    /\ rt_g_total_completed = rt_g_total_expected

\* A step that is a submit_one_io call whose spdk_bdev_read was rejected.
RT_RejectedSubmitStep ==
    /\ rt_cur.t # -1
    /\ rt_cur'.t = rt_cur.t
    /\ rt_cur'.i = rt_cur.i + 1
    /\ rt_last' = "rejected"

\* C8: a submission rejected synchronously leaves the submitted and the
\* outstanding counters unchanged, and no callback is ever invoked for it:
\* callbacks run and callbacks pending always add up to the accepted reads.
C8_RejectedSubmission ==
    /\ [][RT_RejectedSubmitStep =>
             /\ rt_submitted' = rt_submitted
             /\ rt_completed' = rt_completed
             /\ rt_inflight' = rt_inflight
         ]_vars
    /\ [](\A t \in RT_Threads : rt_completed[t] + rt_inflight[t] = rt_submitted[t])

\* C8 witness: thread_work has just had a read rejected after another one of
\* the same thread was accepted.
C8_Witness ==
    /\ rt_last = "rejected"
    /\ rt_cur.t # -1
    /\ rt_submitted[rt_cur.t] > 0
    /\ rt_submitted[rt_cur.t] < rt_qdepth

\* C9: Scenario C: with queue depth limit N, the read submitted when N are
\* outstanding is rejected and the submitted counter stays at N; the
\* outstanding count submitted - completed of a queue never exceeds N.
C9_Backpressure ==
    /\ [](\A t \in RT_Threads : rt_submitted[t] - rt_completed[t] <= rt_qdepth)
    /\ [][\A t \in RT_Threads :
             (/\ rt_cur.t = t
              /\ rt_cur'.t = t
              /\ rt_cur'.i = rt_cur.i + 1
              /\ rt_submitted[t] - rt_completed[t] = rt_qdepth)
             => (rt_last' # "accepted" /\ rt_submitted'[t] = rt_qdepth)
         ]_vars

\* C9 witness: N reads were accepted in a row, none polled, and the (N+1)-th
\* was rejected, leaving submitted at N.
C9_Witness ==
    /\ rt_cur.t # -1
    /\ rt_qdepth < RT_IO_PER_THREAD
    /\ rt_cur.i = rt_qdepth + 1
    /\ rt_last = "rejected"
    /\ rt_submitted[rt_cur.t] = rt_qdepth
    /\ rt_completed[rt_cur.t] = 0

\* C10: the exit code of main is 0 after a clean stop and non-zero after a
\* fatal initialization failure such as a failed open of the device.
C10_ExitCode ==
    mc_app = "exited" =>
        IF mc_g_desc = "null" THEN mc_exit # 0 ELSE mc_exit = 0

\* C11: when allocating a queue for a work unit fails, no work is dispatched
\* to that work unit and no read is issued on an unallocated queue (which is
\* what ends the process, taking the other core down with it).
C11_FailedQueueNoWork ==
    /\ mq_app # "crashed"
    /\ \A c \in MQ_Cores :
          (\E q \in MQ_Qpairs : mq_qpair[c][q] = "null") => mq_event[c] = "none"

\* C12: every queue has one owning execution context for its whole lifetime:
\* allocation and every submission on a qpair are made from the same core.
C12_SingleOwner ==
    \A c \in MQ_Cores, q \in MQ_Qpairs : Cardinality(mq_users[c][q]) <= 1

\* C13: when the system has stopped, every I/O channel that was opened and
\* the device descriptor have been released.
C13_ReleasedWhenStopped ==
    rt_app = "exited" =>
        /\ rt_g_desc # "open"
        /\ \A t \in RT_Threads : rt_ch[t] # "open"

\* Shutdown has been triggered: spdk_app_stop was called.
RT_ShutdownTriggered == rt_app \in {"stopping", "exited"}

C16_NoOutstandingAtStop ==
    rt_stop_calls >= 1 =>
        \A t \in RT_Threads :
            rt_submitted[t] = rt_completed[t] /\ rt_inflight[t] = 0

\* C16 witness: spdk_app_stop(0) has just been invoked by the last callback,
\* after every thread submitted all its reads.
C16_Witness ==
    /\ rt_stop_calls = 1
    /\ rt_app = "stopping"
    /\ \A t \in RT_Threads : rt_submitted[t] = RT_IO_PER_THREAD

\* A step that is a submit_one_io call abandoned on an allocation failure.
RT_AbandonedSubmitStep ==
    /\ rt_cur.t # -1
    /\ rt_cur'.i = rt_cur.i + 1
    /\ rt_last' = "abandoned"

\* C18: an allocation failure abandons only that read: no counter changes,
\* what was allocated is freed, thread_work goes on with the next read (it
\* returns only after IO_PER_THREAD iterations) and the work posted to the
\* other threads stays posted.
C18_AbandonOnlyThatRead ==
    /\ [][RT_AbandonedSubmitStep =>
             /\ rt_submitted' = rt_submitted
             /\ rt_completed' = rt_completed
             /\ rt_inflight' = rt_inflight
             /\ rt_g_total_completed' = rt_g_total_completed
             /\ rt_live_tasks' = rt_live_tasks
             /\ rt_live_bufs' = rt_live_bufs
             /\ rt_cur'.t = rt_cur.t
             /\ rt_msg' = rt_msg
         ]_vars
    /\ [][(rt_cur # RT_NoCur /\ rt_cur' = RT_NoCur) => rt_cur.i = RT_IO_PER_THREAD]_vars

\* C18 witness: a read was abandoned after an earlier read of the same thread
\* was accepted, and iterations remain.
C18_Witness ==
    /\ rt_last = "abandoned"
    /\ rt_cur.t # -1
    /\ rt_cur.i < RT_IO_PER_THREAD
    /\ rt_submitted[rt_cur.t] > 0

\* C19: every run eventually invokes the stop trigger: once the bdev is open
\* and nothing is left to run (every thread_work returned, no read pending),
\* spdk_app_stop has been called.
C19_EventuallyStops ==
    (/\ rt_g_desc = "open"
     /\ rt_cur = RT_NoCur
     /\ \A t \in RT_Threads : rt_msg[t] = "done" /\ rt_inflight[t] = 0)
        => rt_stop_calls >= 1

\* C20: every read issued by thread_work targets blocks inside the device:
\* lba + 1 <= nb for every nb and every i.
C20_LbaInRange ==
    (tw_pc = "loop" /\ tw_i > 0) => tw_lba + 1 <= tw_nb

\* C14: the descriptor's lifetime contains that of every channel derived from
\* it: a channel is held only while its descriptor is open, and a closed
\* descriptor has had its channel released.
C14_DescriptorOutlivesChannels ==
    /\ bn_ch = "open" => bn_desc = "open"
    /\ bn_desc = "closed" => bn_ch = "released"
    /\ \A c \in BM_Cores : bm_ch[c] = "open" => bm_desc = "open"

\* bdev_nvme has released its channel and then closed the descriptor.
C14_Witness == bn_desc = "closed" /\ bn_ch = "released" /\ bn_exit = 0

\* C17: in bdev_nvme the channel is released only with no outstanding read:
\* io_completed = io_submitted, whether the read completed or was never accepted.
C17_ReleasedWhenDrained ==
    bn_ch = "released" => (bn_io_completed = bn_io_submitted /\ bn_inflight = 0)

\* The read was accepted, completed, and the channel was then released.
C17_Witness == bn_ch = "released" /\ bn_io_submitted = 1 /\ bn_io_completed = 1

\* thread_work: the in-flight reads that use the buffer allocated in the outer
\* iteration for qpair q of core c (the inner loop hands the same buf to every
\* spdk_nvme_ns_cmd_read of that iteration).
MQ_ReadsOnBuffer(c, q) == mq_accepted[c][q] - mq_cb_invoked[c][q]

\* C21: each in-flight read owns its buffer exclusively: no buffer is used by
\* two reads that were submitted and have not completed.
C21_ExclusiveBuffer ==
    \A c \in MQ_Cores : \A q \in MQ_Qpairs : MQ_ReadsOnBuffer(c, q) <= 1

\* C22: every completion bumps the thread's and the global counter together:
\* whenever no callback is in progress, g_total_completed equals the sum of the
\* threads' completed counters.
C22_GlobalIsSumOfThreads ==
    rt_g_total_completed = Sum(rt_completed)

\* C22 witness: callbacks have run for reads of every thread, the latest of
\* them for a failed read, and not all reads are complete yet.
C22_Witness ==
    /\ \A t \in RT_Threads : rt_completed[t] > 0
    /\ rt_callbacks = Sum(rt_completed)
    /\ rt_callbacks < rt_g_total_expected
    /\ rt_last = "fail"

\* C23: in spdk_nvme_multi_io_full every reactor context has both counters at
\* 0 when its thread is launched, and io_completed <= io_submitted <=
\* QP_PER_REACTOR holds for every reactor whenever the monitor loop looks.
C23_CountersInitialised ==
    /\ \A c \in MF_Cores :
          mf_thread[c] = "start" => (mf_io_submitted[c] = 0 /\ mf_io_completed[c] = 0)
    /\ mf_pc = "monitor" =>
          \A c \in MF_Cores :
              /\ mf_io_completed[c] <= mf_io_submitted[c]
              /\ mf_io_submitted[c] <= MF_QP_PER_REACTOR

\* C24: in spdk_nvme_app, once main has finished after a successful attach,
\* the number of allocated qpairs equals the number of created threads.
C24_QpairPerThread ==
    (na_pc = "exited" /\ na_exit = 0 /\ na_g_ctrlr = "attached") =>
        na_qpairs = Cardinality(na_threads)

====
